---------------------------- MODULE Spec2Model ----------------------------
(***************************************************************************)
(* Ambulance driver dashboard (src/script.js): the drive simulator, the    *)
(* per-signal override state machine, route suggestion and the buttons.    *)
(*                                                                         *)
(* Numbers.  Latitudes and longitudes are integers in units of             *)
(* 1e-4/21 degree: a waypoint 10.9488 is 109488 * 21, so that the linear   *)
(* interpolation at a multiple of STEP = TICK_MS / SEGMENT_TIME_MS = 1/21  *)
(* is exact.  segmentProgress counts STEPs (0..20); the floating-point sum *)
(* of 21 STEPs is 1.0000000000000004 >= 1, so the 21st tick of a segment   *)
(* is the one that advances currentIndex.  Distances are integers in       *)
(* decimetres (3.0 km = 30000).  null is NoIndex / NoDistance / NoTimer /  *)
(* NoRoute, Infinity is a number above every distance.                     *)
(***************************************************************************)
EXTENDS Integers, Sequences, FiniteSets

VARIABLES
    selectedRouteId,    \* id of the selected route, or NoRoute
    routeCards,         \* TRUE while the route cards (Select buttons) are rendered
    predictedTraffic,   \* text of #predictedTraffic: "Low", "Medium", "High" or "none"
    emergencyMode,
    isDriving,
    driveTimer,         \* handle kept by the script, or NoTimer
    activeTimers,       \* interval timers the browser will still fire
    currentIndex,       \* 0-based waypoint index
    segmentProgress,    \* in STEPs
    ambulanceMarker,    \* displayed position
    signalRuntime,      \* 1..3 -> runtime record of S1..S3
    eventLog,           \* newest first
    advanceDetection,   \* #advanceDetection is "Active"
    autoControl,        \* #autoControl is "ON"
    distanceToSignal,   \* #distanceToSignal, NoDistance for NaN
    alertShown,         \* the last operation raised the alert
    nextSignal,         \* nextSignal of the last driveTick (0: null, or not reached)
    lastOp,             \* the last operation other than the emergency toggle
    modeTrace,          \* per signal, the modes it went through in this drive
    prior,              \* what the last start or reset found: was a drive running, was
                        \* a signal passed (both FALSE after any other operation)
    clicksInDrive,      \* clicks other than reset made during the running drive
    accidentSelect,     \* value of #accidentSelect, where the specification tracks it
    clockHour           \* new Date().getHours(), where the specification tracks it

vars == <<selectedRouteId, routeCards, predictedTraffic, emergencyMode, isDriving,
          driveTimer, activeTimers, currentIndex, segmentProgress, ambulanceMarker,
          signalRuntime, eventLog, advanceDetection, autoControl, distanceToSignal,
          alertShown, nextSignal, lastOp, modeTrace, prior, clicksInDrive,
          accidentSelect, clockHour>>

\* Clicks explored while one drive is running, besides the ticks and the reset
\* that ends it.
MaxClicks == 1

-----------------------------------------------------------------------------
(* Constants of the script *)

TICK_MS == 200
SEGMENT_TIME_MS == 4200
StepsPerSegment == SEGMENT_TIME_MS \div TICK_MS

NoRoute == "null"
NoIndex == -1
NoDistance == -1
NoTimer == 0
Infinity == 1000000

ADVANCE_DETECTION_KM == 30000
OVERRIDE_START_KM == 4000
OVERRIDE_END_KM == 1500
CrossingBufferKm == 300

NORMAL == "Normal Traffic Mode"
OVERRIDE == "Green for Ambulance (Override)"

Deg(lat, lon) == <<lat * StepsPerSegment, lon * StepsPerSegment>>

CITY_CENTER == Deg(109601, 780766)

SIGNAL_DEFS ==
    << [id |-> "S1", location |-> Deg(109558, 780748)],
       [id |-> "S2", location |-> Deg(109639, 780795)],
       [id |-> "S3", location |-> Deg(109696, 780856)] >>

Signals == 1..Len(SIGNAL_DEFS)

ROUTES ==
    [ fastest |->
        [ id |-> "fastest", baseTraffic |-> "Low",
          coords |-> << Deg(109488, 780690), Deg(109526, 780718), Deg(109562, 780742),
                        Deg(109591, 780762), Deg(109622, 780783), Deg(109652, 780810),
                        Deg(109680, 780840), Deg(109712, 780873) >> ],
      alternative |->
        [ id |-> "alternative", baseTraffic |-> "Medium",
          coords |-> << Deg(109488, 780690), Deg(109504, 780750), Deg(109536, 780812),
                        Deg(109578, 780860), Deg(109630, 780892), Deg(109686, 780903),
                        Deg(109712, 780873) >> ],
      shortest |->
        [ id |-> "shortest", baseTraffic |-> "High",
          coords |-> << Deg(109488, 780690), Deg(109548, 780736), Deg(109606, 780780),
                        Deg(109662, 780827), Deg(109712, 780873) >> ] ]

RouteIds == {"fastest", "alternative", "shortest"}

\* the value of an array element that does not exist
Undefined == <<>>

\* coords[i] of the script (0-based)
At(coords, i) == IF i + 1 \in DOMAIN coords THEN coords[i + 1] ELSE Undefined

-----------------------------------------------------------------------------
(* Geometry *)

Abs(x) == IF x < 0 THEN -x ELSE x

\* Bind(v, F) is F(v) with v evaluated once: "const x = v; return F(x)"
Bind(v, F(_)) == CHOOSE r \in {F(x) : x \in {v}} : TRUE

\* Math.sqrt on the integers: the largest r with r * r <= n, by bisection
Sqrt(n0) ==
    LET Root(n) ==
            LET iter[lo \in Nat, hi \in Nat] ==
                    IF lo >= hi THEN lo
                    ELSE IF ((lo + hi + 1) \div 2) * ((lo + hi + 1) \div 2) <= n
                    THEN iter[(lo + hi + 1) \div 2, hi]
                    ELSE iter[lo, ((lo + hi + 1) \div 2) - 1]
            IN  iter[0, 46340]
    IN  Bind(n0, Root)

\* Decimetres per unit of latitude, R * pi/180 * 1e-4/21 * 10 = 5.29500, and per unit
\* of longitude at the latitude of the map, * cos(10.96 deg) = 5.19842; both times 10^4.
LatDmE4 == 52950
LonDmE4 == 51984

\* Haversine distance.  Over the 3 km of the map it agrees with the flat formula
\* R * sqrt(dLat^2 + cos(lat1) * cos(lat2) * dLon^2) to well below a decimetre.
distanceKm(a0, b0) ==
    LET Dist(p) ==
            LET a == p[1]
                b == p[2]
                y == (Abs(b[1] - a[1]) * LatDmE4) \div 10000
                x == (Abs(b[2] - a[2]) * LonDmE4) \div 10000
            IN  Sqrt(y * y + x * x)
    IN  Bind(<<a0, b0>>, Dist)

RECURSIVE polylineDistanceKm(_)
polylineDistanceKm(coords) ==
    IF Len(coords) <= 1 THEN 0
    ELSE distanceKm(coords[1], coords[2]) + polylineDistanceKm(Tail(coords))

\* t in STEPs; b - a is a multiple of StepsPerSegment
interpolatePoint(a, b, t) ==
    << a[1] + ((b[1] - a[1]) * t) \div StepsPerSegment,
       a[2] + ((b[2] - a[2]) * t) \div StepsPerSegment >>

-----------------------------------------------------------------------------
(* The script's state as one record, so that a function that calls another is
   the composition of the two. *)

State ==
    [ selectedRouteId |-> selectedRouteId, routeCards |-> routeCards,
      predictedTraffic |-> predictedTraffic, emergencyMode |-> emergencyMode,
      isDriving |-> isDriving, driveTimer |-> driveTimer, activeTimers |-> activeTimers,
      currentIndex |-> currentIndex, segmentProgress |-> segmentProgress,
      ambulanceMarker |-> ambulanceMarker, signalRuntime |-> signalRuntime,
      eventLog |-> eventLog, advanceDetection |-> advanceDetection,
      autoControl |-> autoControl, distanceToSignal |-> distanceToSignal,
      alertShown |-> FALSE, nextSignal |-> nextSignal ]

\* let signalRuntime = SIGNAL_DEFS.map(...)
InitialSignal ==
    [ state |-> NORMAL, nearestIndex |-> NoIndex, minDistance |-> Infinity,
      lastDistance |-> NoDistance, advanceTriggered |-> FALSE,
      overrideActive |-> FALSE, passed |-> FALSE ]

setSignalStateFor(s, i, state) ==
    [s EXCEPT !.signalRuntime[i].state = state]

\* mutant: the passed flag survives
setAllSignalsNormalKeepPassed(s) ==
    [s EXCEPT !.signalRuntime =
        [i \in Signals |->
            [ s.signalRuntime[i] EXCEPT
                !.state = NORMAL, !.advanceTriggered = FALSE, !.overrideActive = FALSE,
                !.minDistance = Infinity, !.lastDistance = NoDistance,
                !.nearestIndex = NoIndex ]]]

setAllSignalsNormal(s) ==
    [s EXCEPT !.signalRuntime =
        [i \in Signals |->
            [ s.signalRuntime[i] EXCEPT
                !.state = NORMAL, !.advanceTriggered = FALSE, !.overrideActive = FALSE,
                !.passed = FALSE, !.minDistance = Infinity, !.lastDistance = NoDistance,
                !.nearestIndex = NoIndex ]]]

\* Reset ambulance to the start of the selected route; the drive's state is not touched.
setSelectedRoute(s, routeId) ==
    IF routeId \notin RouteIds THEN [s EXCEPT !.selectedRouteId = routeId]
    ELSE [s EXCEPT !.selectedRouteId = routeId,
                   !.ambulanceMarker = At(ROUTES[routeId].coords, 0)]

\* mutant: the entry is put at the end
logEventAtEnd(s, message) == [s EXCEPT !.eventLog = @ \o <<message>>]

\* el.prepend(item)
logEvent(s, message) == [s EXCEPT !.eventLog = <<message>> \o @]

clearLog(s) == [s EXCEPT !.eventLog = <<>>]

-----------------------------------------------------------------------------
(* Traffic prediction and route suggestion *)

AccidentKeys == {"guindy", "tnagar", "egmore", "central", "other"}
Hours == 0..23

\* mutant: the peak windows end one hour early
predictTrafficLevelShortPeak(accidentKey, hour) ==
    LET peak == (hour >= 8 /\ hour < 10) \/ (hour >= 17 /\ hour < 19)
        bias == CASE accidentKey = "guindy" -> 1
                  [] accidentKey = "tnagar" -> 2
                  [] accidentKey = "egmore" -> 2
                  [] accidentKey = "central" -> 3
                  [] OTHER -> 1
        score == (IF peak THEN 2 ELSE 0) + bias
    IN  IF score >= 4 THEN "High" ELSE IF score >= 3 THEN "Medium" ELSE "Low"

predictTrafficLevel(accidentKey, hour) ==
    LET peak == (hour >= 8 /\ hour <= 10) \/ (hour >= 17 /\ hour <= 19)
        bias == CASE accidentKey = "guindy" -> 1
                  [] accidentKey = "tnagar" -> 2
                  [] accidentKey = "egmore" -> 2
                  [] accidentKey = "central" -> 3
                  [] OTHER -> 1
        score == (IF peak THEN 2 ELSE 0) + bias
    IN  IF score >= 4 THEN "High" ELSE IF score >= 3 THEN "Medium" ELSE "Low"

renderPrediction(s, level) == [s EXCEPT !.predictedTraffic = level]

\* (distance / 35) * 60 * mult, in decimetre-minutes * 35/60 * 100: the common
\* positive factor changes no comparison of two times.
estimatedTimeMinutes(distance, trafficLevel) ==
    LET mult == IF trafficLevel = "Low" THEN 100
                ELSE IF trafficLevel = "Medium" THEN 125 ELSE 155
    IN  distance * mult

adjust(predicted, base) ==
    IF predicted = "High" /\ base = "Low" THEN "Medium"
    ELSE IF predicted = "High" /\ base = "Medium" THEN "High"
    ELSE IF predicted = "Low" /\ base = "High" THEN "Medium"
    ELSE base

tRank(x) == IF x = "Low" THEN 1 ELSE IF x = "Medium" THEN 2 ELSE 3

\* mutant: the routes are ordered by their raw distance
compareRoutesByDistance(a, b) == a.distance - b.distance

\* the sort's comparator: negative when a goes before b
compareRoutes(a, b) ==
    LET diff == tRank(a.traffic) - tRank(b.traffic)
    IN  IF diff # 0 THEN diff ELSE a.timeMin - b.timeMin

RouteOrder == <<"fastest", "alternative", "shortest">>

RouteDistance == [r \in RouteIds |-> polylineDistanceKm(ROUTES[r].coords)]

routeList(predicted) ==
    [k \in 1..Len(RouteOrder) |->
        LET r == ROUTES[RouteOrder[k]]
            traffic == adjust(predicted, r.baseTraffic)
        IN  [ id |-> r.id, distance |-> RouteDistance[r.id], traffic |-> traffic,
              timeMin |-> estimatedTimeMinutes(RouteDistance[r.id], traffic) ]]

\* routeList.sort(...)[0].id: the sort is stable, so among equals the earlier one is first
recommendedId(predicted) ==
    LET list == routeList(predicted)
        first == CHOOSE k \in DOMAIN list :
                    \A j \in DOMAIN list \ {k} :
                        \/ compareRoutes(list[k], list[j]) < 0
                        \/ compareRoutes(list[k], list[j]) = 0 /\ k < j
    IN  list[first].id

buildRouteCards(s, predicted) ==
    setSelectedRoute([s EXCEPT !.routeCards = TRUE], recommendedId(predicted))

setEmergencyMode(s, on) == [s EXCEPT !.emergencyMode = on]

-----------------------------------------------------------------------------
(* Drive simulation *)

setAdvanceDetection(s, active) == [s EXCEPT !.advanceDetection = active]

setDistanceUI(s, km) == [s EXCEPT !.distanceToSignal = km]

setAutoControl(s, on) == [s EXCEPT !.autoControl = on]

\* mutant: the handle is dropped without clearInterval
stopDriveTimerForget(s0) == [s0 EXCEPT !.driveTimer = NoTimer]

stopDriveTimer(s0) ==
    LET Body(s) ==
            IF s.driveTimer # NoTimer
            THEN [s EXCEPT !.activeTimers = @ \ {s.driveTimer}, !.driveTimer = NoTimer]
            ELSE s
    IN  Bind(s0, Body)

\* mutant: currentIndex is not put back to 0
resetDriveStateKeepIndex(s) ==
    LET s1 == [stopDriveTimer(s) EXCEPT !.isDriving = FALSE, !.segmentProgress = 0]
    IN  setAutoControl(setDistanceUI(setAdvanceDetection(setAllSignalsNormal(s1), FALSE),
                                     NoDistance), FALSE)

resetDriveState(s) ==
    LET s1 == [stopDriveTimer(s) EXCEPT
                  !.isDriving = FALSE, !.currentIndex = 0, !.segmentProgress = 0]
    IN  setAutoControl(setDistanceUI(setAdvanceDetection(setAllSignalsNormal(s1), FALSE),
                                     NoDistance), FALSE)

AdvanceMsg(i) == <<SIGNAL_DEFS[i].id, "3 km detection triggered. Preparing signal override.">>
OverrideMsg(i) == <<SIGNAL_DEFS[i].id, "Signal override ON (Green for Ambulance).">>
CrossedMsg(i) == <<SIGNAL_DEFS[i].id, "Ambulance crossed signal. Override OFF, normal resumed.">>

\* mutant: the threshold is taken in metres, the distance in kilometres
handleAdvanceDetectionForMetres(s0, i, distanceToSignalKm) ==
    LET Body(s) ==
            IF s.signalRuntime[i].advanceTriggered THEN s
            ELSE IF distanceToSignalKm * 1000 <= ADVANCE_DETECTION_KM
            THEN logEvent(setAutoControl(setAdvanceDetection(
                     [s EXCEPT !.signalRuntime[i].advanceTriggered = TRUE], TRUE), TRUE),
                     AdvanceMsg(i))
            ELSE s
    IN  Bind(s0, Body)

\* mutant: no "already triggered" guard
handleAdvanceDetectionForAlways(s0, i, distanceToSignalKm) ==
    LET Body(s) ==
            IF distanceToSignalKm <= ADVANCE_DETECTION_KM
            THEN logEvent(setAutoControl(setAdvanceDetection(
                     [s EXCEPT !.signalRuntime[i].advanceTriggered = TRUE], TRUE), TRUE),
                     AdvanceMsg(i))
            ELSE s
    IN  Bind(s0, Body)

handleAdvanceDetectionFor(s0, i, distanceToSignalKm) ==
    LET Body(s) ==
            IF s.signalRuntime[i].advanceTriggered THEN s
            ELSE IF distanceToSignalKm <= ADVANCE_DETECTION_KM
            THEN logEvent(setAutoControl(setAdvanceDetection(
                     [s EXCEPT !.signalRuntime[i].advanceTriggered = TRUE], TRUE), TRUE),
                     AdvanceMsg(i))
            ELSE s
    IN  Bind(s0, Body)

\* mutant: the displayed mode is not set
handleSignalOverrideForNoMode(s0, i, distanceToSignalKm) ==
    LET Body(s) ==
            IF /\ ~s.signalRuntime[i].overrideActive
               /\ distanceToSignalKm <= OVERRIDE_START_KM
            THEN logEvent([s EXCEPT !.signalRuntime[i].overrideActive = TRUE],
                          OverrideMsg(i))
            ELSE s
    IN  Bind(s0, Body)

handleSignalOverrideFor(s0, i, distanceToSignalKm) ==
    LET Body(s) ==
            IF /\ ~s.signalRuntime[i].overrideActive
               /\ distanceToSignalKm <= OVERRIDE_START_KM
            THEN logEvent(setSignalStateFor(
                              [s EXCEPT !.signalRuntime[i].overrideActive = TRUE],
                              i, OVERRIDE),
                          OverrideMsg(i))
            ELSE s
    IN  Bind(s0, Body)

\* mutant: the signal is not marked passed
crossedNotPassed(s, i) ==
    logEvent(setAdvanceDetection(setAutoControl(
        setSignalStateFor([s EXCEPT !.signalRuntime[i].overrideActive = FALSE],
                          i, NORMAL), FALSE), FALSE),
        CrossedMsg(i))

\* mutant: overrideActive is not cleared
crossedKeepOverride(s, i) ==
    logEvent(setAdvanceDetection(setAutoControl(
        setSignalStateFor([s EXCEPT !.signalRuntime[i].passed = TRUE],
                          i, NORMAL), FALSE), FALSE),
        CrossedMsg(i))

\* the effects shared by the two crossing rules
crossed(s, i) ==
    logEvent(setAdvanceDetection(setAutoControl(
        setSignalStateFor([s EXCEPT !.signalRuntime[i].passed = TRUE,
                                    !.signalRuntime[i].overrideActive = FALSE],
                          i, NORMAL), FALSE), FALSE),
        CrossedMsg(i))

\* mutant: the 0.03 km buffer is left out
handleAfterCrossingForNoBuffer(s0, i, distanceToSignalKm) ==
    LET Body(s) ==
    LET signal == s.signalRuntime[i]
        closeEnough == signal.minDistance <= OVERRIDE_START_KM
        movingAwayFromMin == distanceToSignalKm > signal.minDistance
        passedIndex ==
            IF signal.nearestIndex # NoIndex
            THEN \/ s.currentIndex > signal.nearestIndex
                 \/ /\ s.currentIndex = signal.nearestIndex
                    /\ s.segmentProgress * 10 >= 6 * StepsPerSegment
            ELSE FALSE
        gotClose == signal.lastDistance <= OVERRIDE_START_KM
        movingAway == distanceToSignalKm > signal.lastDistance
    IN  IF signal.passed THEN s
        ELSE IF signal.lastDistance = NoDistance
        THEN [s EXCEPT !.signalRuntime[i].lastDistance = distanceToSignalKm]
        ELSE IF signal.overrideActive /\ closeEnough /\ (movingAwayFromMin \/ passedIndex)
        THEN [crossed(s, i) EXCEPT !.signalRuntime[i].lastDistance = distanceToSignalKm]
        ELSE LET s1 == IF /\ signal.overrideActive /\ gotClose /\ movingAway
                          /\ distanceToSignalKm >= OVERRIDE_END_KM
                       THEN crossed(s, i) ELSE s
             IN  [s1 EXCEPT !.signalRuntime[i].lastDistance = distanceToSignalKm]
    IN  Bind(s0, Body)

handleAfterCrossingFor(s0, i, distanceToSignalKm) ==
    LET Body(s) ==
    LET signal == s.signalRuntime[i]
        closeEnough == signal.minDistance <= OVERRIDE_START_KM
        movingAwayFromMin == distanceToSignalKm > signal.minDistance + CrossingBufferKm
        passedIndex ==
            IF signal.nearestIndex # NoIndex
            THEN \/ s.currentIndex > signal.nearestIndex
                 \/ /\ s.currentIndex = signal.nearestIndex
                    /\ s.segmentProgress * 10 >= 6 * StepsPerSegment
            ELSE FALSE
        gotClose == signal.lastDistance <= OVERRIDE_START_KM
        movingAway == distanceToSignalKm > signal.lastDistance
    IN  IF signal.passed THEN s
        ELSE IF signal.lastDistance = NoDistance
        THEN [s EXCEPT !.signalRuntime[i].lastDistance = distanceToSignalKm]
        ELSE IF signal.overrideActive /\ closeEnough /\ (movingAwayFromMin \/ passedIndex)
        THEN [crossed(s, i) EXCEPT !.signalRuntime[i].lastDistance = distanceToSignalKm]
        ELSE LET s1 == IF /\ signal.overrideActive /\ gotClose /\ movingAway
                          /\ distanceToSignalKm >= OVERRIDE_END_KM
                       THEN crossed(s, i) ELSE s
             IN  [s1 EXCEPT !.signalRuntime[i].lastDistance = distanceToSignalKm]
    IN  Bind(s0, Body)

\* candidates: not passed, nearestIndex a number, sorted by nearestIndex (stable)
RECURSIVE sortByNearest(_, _)
sortByNearest(s, set) ==
    IF set = {} THEN <<>>
    ELSE LET m == CHOOSE i \in set : \A j \in set \ {i} :
                     \/ s.signalRuntime[i].nearestIndex < s.signalRuntime[j].nearestIndex
                     \/ /\ s.signalRuntime[i].nearestIndex = s.signalRuntime[j].nearestIndex
                        /\ i < j
         IN  <<m>> \o sortByNearest(s, set \ {m})

\* mutant: passed signals stay candidates
getNextSignalAnyPassed(s0) ==
    LET Body(s) ==
            LET First(candidates) ==
                    LET ahead == {k \in 1..Len(candidates) :
                                     s.currentIndex <=
                                         s.signalRuntime[candidates[k]].nearestIndex + 1}
                    IN  IF ahead # {}
                        THEN candidates[CHOOSE k \in ahead : \A j \in ahead : k <= j]
                        ELSE IF Len(candidates) > 0 THEN candidates[Len(candidates)]
                        ELSE 0
            IN  Bind(sortByNearest(s, {i \in Signals :
                                          s.signalRuntime[i].nearestIndex # NoIndex}),
                     First)
    IN  Bind(s0, Body)

\* the signal's index in signalRuntime, 0 for null
getNextSignal(s0) ==
    LET Body(s) ==
            LET First(candidates) ==
                    LET ahead == {k \in 1..Len(candidates) :
                                     s.currentIndex <=
                                         s.signalRuntime[candidates[k]].nearestIndex + 1}
                    IN  IF ahead # {}
                        THEN candidates[CHOOSE k \in ahead : \A j \in ahead : k <= j]
                        ELSE IF Len(candidates) > 0 THEN candidates[Len(candidates)]
                        ELSE 0
            IN  Bind(sortByNearest(s, {i \in Signals :
                                          /\ ~s.signalRuntime[i].passed
                                          /\ s.signalRuntime[i].nearestIndex # NoIndex}),
                     First)
    IN  Bind(s0, Body)

\* mutant: the progress is not reset when it wraps
advanceKeepProgress(s) ==
    IF s.segmentProgress + 1 >= StepsPerSegment
    THEN [s EXCEPT !.currentIndex = @ + 1, !.segmentProgress = @ + 1]
    ELSE [s EXCEPT !.segmentProgress = @ + 1]

\* mutant: the index is not incremented when the progress wraps
advanceNoIndex(s) ==
    IF s.segmentProgress + 1 >= StepsPerSegment
    THEN [s EXCEPT !.segmentProgress = 0]
    ELSE [s EXCEPT !.segmentProgress = @ + 1]

\* segmentProgress += STEP; if (segmentProgress >= 1) { currentIndex++; ... }
advance(s) ==
    IF s.segmentProgress + 1 >= StepsPerSegment
    THEN [s EXCEPT !.currentIndex = @ + 1, !.segmentProgress = 0]
    ELSE [s EXCEPT !.segmentProgress = @ + 1]

\* mutant: the drive goes on at the last waypoint
routeCompletedLate(s, coords) == s.currentIndex >= Len(coords)

\* if (currentIndex >= coords.length - 1)
routeCompleted(s, coords) == s.currentIndex >= Len(coords) - 1

driveTick(s0) ==
    LET \* from "const nextSignal = getNextSignal()" on; s1 is the state after the move
        Signal(s1) ==
            LET Work(next) ==
                    IF next = 0 THEN setDistanceUI(s1, NoDistance)
                    ELSE
                    LET Handle(distKm) ==
                            handleAfterCrossingFor(
                                handleSignalOverrideFor(
                                    handleAdvanceDetectionFor(
                                        [s1 EXCEPT
                                            !.nextSignal = next,
                                            !.signalRuntime[next].minDistance =
                                                IF distKm < @ THEN distKm ELSE @,
                                            !.distanceToSignal = distKm],
                                        next, distKm),
                                    next, distKm),
                                next, distKm)
                    IN  Bind(distanceKm(s1.ambulanceMarker, SIGNAL_DEFS[next].location),
                             Handle)
            IN  Bind(getNextSignal(s1), Work)
        Move(s) ==
            IF ~s.isDriving \/ s.selectedRouteId = NoRoute THEN s
            ELSE
            LET coords == ROUTES[s.selectedRouteId].coords
            IN  IF routeCompleted(s, coords)
                THEN [stopDriveTimer(s) EXCEPT !.isDriving = FALSE]
                ELSE
                LET \* a and b are read before the index moves
                    a == At(coords, s.currentIndex)
                    b == At(coords, s.currentIndex + 1)
                    Show(moved) ==
                        [moved EXCEPT !.ambulanceMarker =
                            interpolatePoint(a, b, moved.segmentProgress)]
                IN  \* interpolatePoint throws on an undefined waypoint, after the
                    \* progress and the index were updated
                    IF a = Undefined \/ b = Undefined THEN advance(s)
                    ELSE Bind(Bind(advance(s), Show), Signal)
    IN  Bind([s0 EXCEPT !.nextSignal = 0], Move)

\* setInterval: a handle no running timer has
setInterval(s0) ==
    LET Body(s) ==
            LET t == CHOOSE t \in 1..(Cardinality(s.activeTimers) + 1) :
                         t \notin s.activeTimers
            IN  [s EXCEPT !.activeTimers = @ \cup {t}, !.driveTimer = t]
    IN  Bind(s0, Body)

\* index of the waypoint nearest to the signal (the first of equally near ones)
nearestWaypoint(coords, location) ==
    LET d == [i \in 0..(Len(coords) - 1) |-> distanceKm(At(coords, i), location)]
        First(dist) ==
            CHOOSE i \in DOMAIN dist :
                /\ \A j \in 0..(i - 1) : dist[j] > dist[i]
                /\ \A j \in (i + 1)..(Len(coords) - 1) : dist[j] >= dist[i]
    IN  Bind(d, First)

\* startEmergencyDrive after its two guards
beginDrive(s0) ==
    LET Body(s) ==
            LET route == ROUTES[s.selectedRouteId]
                Prepare(s1) ==
                    LET s2 == [s1 EXCEPT !.signalRuntime =
                                  [i \in Signals |->
                                      [ s1.signalRuntime[i] EXCEPT
                                          !.nearestIndex =
                                              nearestWaypoint(route.coords,
                                                              SIGNAL_DEFS[i].location),
                                          !.minDistance = Infinity,
                                          !.lastDistance = NoDistance,
                                          !.advanceTriggered = FALSE,
                                          !.overrideActive = FALSE,
                                          !.passed = FALSE, !.state = NORMAL ]]]
                        s3 == logEvent(logEvent(clearLog(s2),
                                                <<"", "Emergency drive started.">>),
                                       <<"Selected route", route.id>>)
                    IN  setInterval(s3)
            IN  Bind([resetDriveState(setEmergencyMode(s, TRUE)) EXCEPT
                         !.isDriving = TRUE,
                         !.ambulanceMarker = At(route.coords, 0)],
                     Prepare)
    IN  Bind(s0, Body)

\* mutant: emergency mode is turned on before the route is checked
startEmergencyDriveEager(s) ==
    IF s.selectedRouteId = NoRoute
    THEN [setEmergencyMode(s, TRUE) EXCEPT !.alertShown = TRUE]
    ELSE IF s.isDriving THEN s
    ELSE beginDrive(s)

\* mutant: no "already driving" guard
startEmergencyDriveAgain(s) ==
    IF s.selectedRouteId = NoRoute THEN [s EXCEPT !.alertShown = TRUE]
    ELSE beginDrive(s)

startEmergencyDrive(s) ==
    IF s.selectedRouteId = NoRoute THEN [s EXCEPT !.alertShown = TRUE]
    ELSE IF s.isDriving THEN s
    ELSE beginDrive(s)

suggestRouteBtnClick(s, accidentKey, hour) ==
    LET predicted == predictTrafficLevel(accidentKey, hour)
    IN  buildRouteCards(renderPrediction(s, predicted), predicted)

resetBtnClick(s) ==
    LET s1 == logEvent(clearLog(setEmergencyMode(resetDriveState(s), FALSE)),
                       <<"", "System reset. Ready.">>)
    IN  [s1 EXCEPT !.predictedTraffic = "none", !.routeCards = FALSE,
                   !.selectedRouteId = NoRoute, !.ambulanceMarker = CITY_CENTER]

toggleEmergencyBtnClick(s) == setEmergencyMode(s, ~s.emergencyMode)

-----------------------------------------------------------------------------
(* The state machine *)

\* values of the script's top-level declarations, before its last lines run
Loaded ==
    [ selectedRouteId |-> NoRoute, routeCards |-> FALSE, predictedTraffic |-> "none",
      emergencyMode |-> FALSE, isDriving |-> FALSE, driveTimer |-> NoTimer,
      activeTimers |-> {}, currentIndex |-> 0, segmentProgress |-> 0,
      ambulanceMarker |-> CITY_CENTER,
      signalRuntime |-> [i \in Signals |-> InitialSignal],
      eventLog |-> <<>>, advanceDetection |-> FALSE, autoControl |-> FALSE,
      distanceToSignal |-> NoDistance, alertShown |-> FALSE, nextSignal |-> 0 ]

\* "Initial UI values" and initDefaultSuggestion
initDefaultSuggestion(accidentKey, h) ==
    suggestRouteBtnClick(resetDriveState(setEmergencyMode(Loaded, FALSE)), accidentKey, h)

\* a drive begins (start) or is given up (reset) in the step from s to n by op
NewEpoch(op, s, n) ==
    \/ op = "reset"
    \/ op = "start" /\ ~s.isDriving /\ n.isDriving

\* the script's state becomes n; the bookkeeping of the run follows
Do(op, result) ==
    \E s \in {State}, n \in {result} :
        /\ selectedRouteId' = n.selectedRouteId
        /\ routeCards' = n.routeCards
        /\ predictedTraffic' = n.predictedTraffic
        /\ emergencyMode' = n.emergencyMode
        /\ isDriving' = n.isDriving
        /\ driveTimer' = n.driveTimer
        /\ activeTimers' = n.activeTimers
        /\ currentIndex' = n.currentIndex
        /\ segmentProgress' = n.segmentProgress
        /\ ambulanceMarker' = n.ambulanceMarker
        /\ signalRuntime' = n.signalRuntime
        /\ eventLog' = n.eventLog
        /\ advanceDetection' = n.advanceDetection
        /\ autoControl' = n.autoControl
        /\ distanceToSignal' = n.distanceToSignal
        /\ alertShown' = n.alertShown
        /\ nextSignal' = n.nextSignal
        /\ lastOp' = IF op = "toggle" THEN lastOp ELSE op
        /\ modeTrace' =
              [i \in Signals |->
                  IF NewEpoch(op, s, n) THEN <<n.signalRuntime[i].state>>
                  ELSE IF n.signalRuntime[i].state # s.signalRuntime[i].state
                  THEN Append(modeTrace[i], n.signalRuntime[i].state)
                  ELSE modeTrace[i]]
        /\ prior' = IF NewEpoch(op, s, n)
                    THEN [driving |-> s.isDriving,
                          passed |-> \E i \in Signals : s.signalRuntime[i].passed]
                    ELSE IF op = "toggle" THEN prior
                    ELSE [driving |-> FALSE, passed |-> FALSE]
        /\ clicksInDrive' =
              IF ~n.isDriving \/ NewEpoch(op, s, n) THEN 0
              ELSE IF op # "tick" THEN clicksInDrive + 1
              ELSE clicksInDrive
        /\ UNCHANGED <<accidentSelect, clockHour>>

\* the page as the last lines of the script leave it, n the script's state
PageLoaded(n) ==
    /\ selectedRouteId = n.selectedRouteId
    /\ routeCards = n.routeCards
    /\ predictedTraffic = n.predictedTraffic
    /\ emergencyMode = n.emergencyMode
    /\ isDriving = n.isDriving
    /\ driveTimer = n.driveTimer
    /\ activeTimers = n.activeTimers
    /\ currentIndex = n.currentIndex
    /\ segmentProgress = n.segmentProgress
    /\ ambulanceMarker = n.ambulanceMarker
    /\ signalRuntime = n.signalRuntime
    /\ eventLog = n.eventLog
    /\ advanceDetection = n.advanceDetection
    /\ autoControl = n.autoControl
    /\ distanceToSignal = n.distanceToSignal
    /\ alertShown = FALSE
    /\ nextSignal = 0
    /\ lastOp = "init"
    /\ modeTrace = [i \in Signals |-> <<n.signalRuntime[i].state>>]
    /\ prior = [driving |-> FALSE, passed |-> FALSE]
    /\ clicksInDrive = 0

\* Spec draws the location and the hour afresh for every prediction and keeps no
\* record of them
Untracked == "untracked"

Init ==
    /\ \E n \in {initDefaultSuggestion(accidentKey, h) :
                    accidentKey \in AccidentKeys, h \in Hours} : PageLoaded(n)
    /\ accidentSelect = Untracked
    /\ clockHour = Untracked

\* during a drive only MaxClicks clicks are explored
MayClick == isDriving => clicksInDrive < MaxClicks

\* click on "Suggest Low Traffic Route"
Suggest ==
    /\ MayClick
    /\ \E n \in {suggestRouteBtnClick(State, accidentKey, h) :
                    accidentKey \in AccidentKeys, h \in Hours} :
           Do("suggest", n)

\* click on the Select button of a route card
SelectRoute ==
    /\ routeCards
    /\ MayClick
    /\ \E routeId \in RouteIds : Do("select", setSelectedRoute(State, routeId))

\* the start operation
StartDrive ==
    /\ MayClick
    /\ Do("start", startEmergencyDrive(State))

\* click on Reset
Reset == Do("reset", resetBtnClick(State))

\* click on the emergency toggle
ToggleEmergency ==
    /\ MayClick
    /\ Do("toggle", toggleEmergencyBtnClick(State))

\* the interval timer fires
Tick ==
    /\ activeTimers # {}
    /\ Do("tick", driveTick(State))

Next ==
    \/ Suggest
    \/ SelectRoute
    \/ StartDrive
    \/ Reset
    \/ ToggleEmergency
    \/ Tick

Spec == Init /\ [][Next]_vars

\* the timer keeps firing while it is set
LiveSpec == Spec /\ WF_vars(Tick)

-----------------------------------------------------------------------------
(* Drives with more than one change of route: the behaviours of the script in
   which, during a drive, nothing is clicked but Select, at most MaxSwitches times
   and only while the ambulance is at a waypoint. *)

\* changes of route explored during one drive
MaxSwitches == 2

\* click on the Select button of a route card while the ambulance is at a waypoint
SwitchRoute ==
    /\ isDriving
    /\ routeCards
    /\ segmentProgress = 0
    /\ clicksInDrive < MaxSwitches
    /\ \E routeId \in RouteIds \ {selectedRouteId} :
           Do("select", setSelectedRoute(State, routeId))

\* the clicks made while no drive is running
Idle ==
    /\ ~isDriving
    /\ \/ SelectRoute
       \/ StartDrive
       \/ Reset

SwitchNext ==
    \/ SwitchRoute
    \/ Idle
    \/ Tick

SwitchSpec == Init /\ [][SwitchNext]_vars

-----------------------------------------------------------------------------
(* The suggestion with its inputs kept in the state: the location select and the
   clock's hour are part of the state, and a click on Suggest reads them. *)

\* the page is loaded with some location selected, at some hour
SuggestInit ==
    \E accidentKey \in AccidentKeys, h \in Hours :
        /\ PageLoaded(initDefaultSuggestion(accidentKey, h))
        /\ accidentSelect = accidentKey
        /\ clockHour = h

\* the user selects another location, or the hour changes
ChangeInputs ==
    /\ \E accidentKey \in AccidentKeys, h \in Hours :
          /\ <<accidentKey, h>> # <<accidentSelect, clockHour>>
          /\ accidentSelect' = accidentKey
          /\ clockHour' = h
    /\ lastOp' = "input"
    /\ UNCHANGED <<selectedRouteId, routeCards, predictedTraffic, emergencyMode,
                   isDriving, driveTimer, activeTimers, currentIndex, segmentProgress,
                   ambulanceMarker, signalRuntime, eventLog, advanceDetection,
                   autoControl, distanceToSignal, alertShown, nextSignal, modeTrace,
                   prior, clicksInDrive>>

\* click on "Suggest Low Traffic Route"
SuggestClick == Do("suggest", suggestRouteBtnClick(State, accidentSelect, clockHour))

SuggestNext ==
    \/ ChangeInputs
    \/ SuggestClick
    \/ SelectRoute
    \/ Reset

SuggestSpec == SuggestInit /\ [][SuggestNext]_vars

-----------------------------------------------------------------------------
(* Properties *)

Count(seq, x) == Cardinality({k \in DOMAIN seq : seq[k] = x})

Coords == ROUTES[selectedRouteId].coords

\* C1: within one drive the modes of every signal are a prefix of
\* Normal -> Override -> Normal: Override is entered at most once, and never again
\* after the return to Normal.
C1_ModeSequence ==
    \A i \in Signals :
        modeTrace[i] \in {<<NORMAL>>, <<NORMAL, OVERRIDE>>, <<NORMAL, OVERRIDE, NORMAL>>}

\* S1 went Normal -> Override -> Normal and the drive has moved on to a later signal,
\* which is in Override now
C1_Witness ==
    /\ isDriving
    /\ modeTrace[1] = <<NORMAL, OVERRIDE, NORMAL>>
    /\ \E j \in Signals \ {1} : modeTrace[j] = <<NORMAL, OVERRIDE>>

\* C2: once a signal is passed, no tick takes it as the next signal and no tick
\* changes any of its runtime fields.
C2_PassedFrozen ==
    [][Tick => \A i \in Signals :
                  signalRuntime[i].passed =>
                      /\ signalRuntime'[i] = signalRuntime[i]
                      /\ nextSignal' # i]_vars

\* a tick has worked with another signal while S1 was passed
C2_Witness ==
    /\ lastOp = "tick"
    /\ signalRuntime[1].passed
    /\ nextSignal \in Signals \ {1}
    /\ signalRuntime[nextSignal].advanceTriggered

\* C3: advance detection fires at most once per signal per drive (the log, cleared by
\* start and reset, never holds its event twice); it fires only in a tick that works
\* with the signal at a distance <= 3.0 km, logs its event then, and never fires for a
\* passed signal.
C3_AdvanceOnce ==
    [][\A i \in Signals :
          /\ Count(eventLog', AdvanceMsg(i)) <= 1
          /\ (signalRuntime'[i].advanceTriggered /\ ~signalRuntime[i].advanceTriggered) =>
                /\ Tick
                /\ nextSignal' = i
                /\ distanceToSignal' <= ADVANCE_DETECTION_KM
                /\ distanceToSignal' # NoDistance
                /\ ~signalRuntime[i].passed
                /\ Count(eventLog, AdvanceMsg(i)) = 0
                /\ Count(eventLog', AdvanceMsg(i)) = 1
          /\ (Tick /\ signalRuntime[i].advanceTriggered) =>
                Count(eventLog', AdvanceMsg(i)) = Count(eventLog, AdvanceMsg(i))]_vars

\* advance detection has fired for all three signals of one drive, once each
C3_Witness ==
    /\ isDriving
    /\ \A i \in Signals :
          signalRuntime[i].advanceTriggered /\ Count(eventLog, AdvanceMsg(i)) = 1

SignalCleared(i) ==
    /\ signalRuntime[i].state = NORMAL
    /\ ~signalRuntime[i].advanceTriggered
    /\ ~signalRuntime[i].overrideActive
    /\ ~signalRuntime[i].passed
    /\ signalRuntime[i].minDistance = Infinity
    /\ signalRuntime[i].lastDistance = NoDistance

AfterReset ==
    /\ activeTimers = {}
    /\ driveTimer = NoTimer
    /\ ~isDriving
    /\ \A i \in Signals : SignalCleared(i) /\ signalRuntime[i].nearestIndex = NoIndex

\* C4: reset stops the timer, clears the running flag and every signal's state; and
\* while no drive is running, nothing but a reset or the start of a drive changes
\* the waypoint index, the segment progress or a signal.
C4_ResetClears ==
    [][/\ Reset => AfterReset'
       /\ (~isDriving /\ ~isDriving' /\ ~Reset) =>
              UNCHANGED <<currentIndex, segmentProgress, signalRuntime>>]_vars

\* reset was clicked in the middle of a drive that had passed a signal
C4_Witness ==
    /\ lastOp = "reset"
    /\ prior.driving
    /\ prior.passed
    /\ AfterReset
    /\ currentIndex = 0

AfterStart ==
    /\ currentIndex = 0
    /\ segmentProgress = 0
    /\ \A i \in Signals :
          /\ SignalCleared(i)
          /\ signalRuntime[i].nearestIndex \in 0..(Len(Coords) - 1)

\* C5: every successful start (a route selected, no drive running) begins from
\* waypoint 0, progress 0 and cleared signals with a valid nearestIndex.
C5_StartClean ==
    [][(StartDrive /\ selectedRouteId # NoRoute /\ ~isDriving) =>
          (isDriving' /\ AfterStart')]_vars

\* a drive was started after an earlier one had completed and left signals passed
C5_Witness ==
    /\ lastOp = "start"
    /\ isDriving
    /\ prior.passed
    /\ ~prior.driving
    /\ AfterStart

\* C6: at most one interval timer is active, in every reachable state.
C6_OneTimer == Cardinality(activeTimers) <= 1

\* a second drive is running on its timer
C6_Witness ==
    /\ prior.passed
    /\ lastOp = "start"
    /\ driveTimer # NoTimer
    /\ activeTimers = {driveTimer}

\* C7: start with no route selected raises the prompt and changes nothing.
C7_StartNoRoute ==
    [][(StartDrive /\ selectedRouteId = NoRoute) =>
          /\ alertShown'
          /\ UNCHANGED <<isDriving, driveTimer, activeTimers, currentIndex,
                         segmentProgress, emergencyMode, eventLog, signalRuntime,
                         selectedRouteId, ambulanceMarker>>]_vars

\* the prompt was raised while emergency mode was on
C7_Witness ==
    /\ alertShown
    /\ lastOp = "start"
    /\ selectedRouteId = NoRoute
    /\ emergencyMode

\* C8: start while a drive is running changes nothing of the drive.
C8_StartWhileDriving ==
    [][(StartDrive /\ isDriving) =>
          UNCHANGED <<isDriving, driveTimer, activeTimers, currentIndex, segmentProgress,
                      eventLog, signalRuntime, ambulanceMarker, emergencyMode>>]_vars

\* start was called in the middle of a drive, with S1 in Override
C8_Witness ==
    /\ lastOp = "start"
    /\ isDriving
    /\ currentIndex > 0
    /\ signalRuntime[1].overrideActive
    /\ ~prior.passed

\* C9: selecting a route during a drive stops the drive and puts the ambulance at
\* the first waypoint of the selected route with index and progress 0.
C9_SelectResetsDrive ==
    [][((SelectRoute \/ Suggest) /\ isDriving) =>
          /\ ~isDriving'
          /\ activeTimers' = {}
          /\ currentIndex' = 0
          /\ segmentProgress' = 0
          /\ ambulanceMarker' = At(Coords', 0)]_vars

\* C10: under fair firing of the timer every running drive stops: either it is
\* reset, or the timer is stopped with the running flag false and the waypoint index
\* at or beyond the last waypoint of the selected route.
C10_DriveStops ==
    isDriving ~>
        /\ ~isDriving
        /\ activeTimers = {}
        /\ \/ lastOp = "reset"
           \/ selectedRouteId # NoRoute /\ currentIndex >= Len(Coords) - 1

\* a drive started on the fastest route has stopped by itself on the shortest one
C10_Witness ==
    /\ lastOp = "tick"
    /\ ~isDriving
    /\ activeTimers = {}
    /\ selectedRouteId = "shortest"
    /\ Len(eventLog) >= 2
    /\ eventLog[Len(eventLog) - 1] = <<"Selected route", "fastest">>
    /\ currentIndex >= Len(Coords) - 1

\* the tick moves the ambulance: a drive is running short of the last waypoint
TickMoves ==
    /\ Tick
    /\ isDriving
    /\ selectedRouteId # NoRoute
    /\ currentIndex < Len(Coords) - 1

\* the interpolation between waypoint[currentIndex] and waypoint[currentIndex + 1];
\* at progress 0 it is waypoint[currentIndex] (the last waypoint has no successor)
Interpolated(coords, index, progress) ==
    IF progress = 0 THEN At(coords, index)
    ELSE interpolatePoint(At(coords, index), At(coords, index + 1), progress)

\* C11: after every tick that moves the ambulance the displayed position is the
\* interpolation between waypoint[currentIndex] and waypoint[currentIndex + 1] at
\* segmentProgress, index and progress taken after the tick's update; on the tick
\* that advances the index it is the new current waypoint.
C11_DisplayedPosition ==
    [][TickMoves =>
          ambulanceMarker' = Interpolated(Coords, currentIndex', segmentProgress')]_vars

\* C12: the segment progress is in [0, 1) and the waypoint index is >= 0 in every
\* reachable state; the index changes only by +1 in a tick whose progress step
\* reaches 1 (and resets the progress to 0), or to 0 by start drive or reset.
C12_ProgressAndIndex ==
    /\ [](segmentProgress \in 0..(StepsPerSegment - 1) /\ currentIndex >= 0)
    /\ [][currentIndex' # currentIndex =>
             \/ /\ lastOp' = "tick"
                /\ currentIndex' = currentIndex + 1
                /\ segmentProgress + 1 >= StepsPerSegment
                /\ segmentProgress' = 0
             \/ /\ lastOp' \in {"start", "reset"}
                /\ currentIndex' = 0]_vars

\* a tick has just advanced the index for the second time in a drive
C12_Witness ==
    /\ lastOp = "tick"
    /\ isDriving
    /\ currentIndex = 2
    /\ segmentProgress = 0

\* the log new is the log old with entries added at the front
GrownAtFront(old, new) ==
    /\ Len(new) >= Len(old)
    /\ SubSeq(new, Len(new) - Len(old) + 1, Len(new)) = old

\* the start operation with a route selected and no drive running
StartBegins == StartDrive /\ selectedRouteId # NoRoute /\ ~isDriving

\* C13 as stated: every operation other than reset leaves the log unchanged or adds
\* entries at its front; only reset removes entries.
C13_AppendOnlyButReset ==
    [][GrownAtFront(eventLog, eventLog') \/ Reset]_vars

\* C13 amended: every operation other than reset and a start that begins a drive
\* leaves the log unchanged or adds entries at its front, existing entries kept in
\* their order; reset and a start that begins a drive clear the log and then log
\* their own entries, newest first.
C13_AppendOnly ==
    [][/\ \/ GrownAtFront(eventLog, eventLog')
          \/ Reset
          \/ StartBegins
       /\ lastOp' = "reset" => eventLog' = << <<"", "System reset. Ready.">> >>
       /\ (lastOp' = "start" /\ ~isDriving /\ isDriving') =>
              eventLog' = << <<"Selected route", selectedRouteId>>,
                             <<"", "Emergency drive started.">> >>]_vars

\* the ticks of a drive have put the three events of S1 in front of the entries of
\* the start, newest first
C13_Witness ==
    /\ lastOp = "tick"
    /\ isDriving
    /\ eventLog = << CrossedMsg(1), OverrideMsg(1), AdvanceMsg(1),
                     <<"Selected route", selectedRouteId>>,
                     <<"", "Emergency drive started.">> >>

\* the level as the specification states it
LevelOfScore(accidentKey, h) ==
    LET peak == h \in (8..10) \cup (17..19)
        bias == IF accidentKey = "guindy" THEN 1
                ELSE IF accidentKey \in {"tnagar", "egmore"} THEN 2
                ELSE IF accidentKey = "central" THEN 3
                ELSE 1
        score == (IF peak THEN 2 ELSE 0) + bias
    IN  IF score >= 4 THEN "High" ELSE IF score = 3 THEN "Medium" ELSE "Low"

\* the state shows the prediction made from the location and hour of the state
Predicted == lastOp \in {"init", "suggest"}

\* C14: for every hour 0..23 and every location key (an unknown key has bias 1) the
\* predicted level is High if score >= 4, Medium if score = 3, else Low, with
\* score = (2 if the hour is in 8..10 or 17..19, else 0) + bias; it is a function of
\* (key, hour) alone, whatever the rest of the state, and one of Low, Medium, High.
C14_PredictedLevel ==
    Predicted =>
        /\ predictedTraffic = LevelOfScore(accidentSelect, clockHour)
        /\ predictedTraffic \in {"Low", "Medium", "High"}

\* a click on Suggest with an unknown location in the last hour of the evening peak
C14_Witness ==
    /\ lastOp = "suggest"
    /\ accidentSelect = "other"
    /\ clockHour = 19
    /\ predictedTraffic = "Medium"

\* severity of route r adjusted by the prediction shown, and its estimated time
AdjustedTraffic(r) == adjust(predictedTraffic, ROUTES[r].baseTraffic)
EstimatedTime(r) == estimatedTimeMinutes(RouteDistance[r], AdjustedTraffic(r))

\* C15: for every predicted level the route that suggest selects is first in the
\* order (adjusted severity Low < Medium < High, then estimated time): no route has
\* a lower adjusted severity, and none of equal severity a lower estimated time.
C15_RecommendedFirst ==
    Predicted =>
        /\ selectedRouteId \in RouteIds
        /\ \A r \in RouteIds :
              \/ tRank(AdjustedTraffic(selectedRouteId)) < tRank(AdjustedTraffic(r))
              \/ /\ tRank(AdjustedTraffic(selectedRouteId)) = tRank(AdjustedTraffic(r))
                 /\ EstimatedTime(selectedRouteId) <= EstimatedTime(r)

\* at prediction High suggest has selected a route of adjusted severity Medium
\* although a route of smaller raw distance exists
C15_Witness ==
    /\ lastOp = "suggest"
    /\ predictedTraffic = "High"
    /\ selectedRouteId \in RouteIds
    /\ AdjustedTraffic(selectedRouteId) = "Medium"
    /\ \E r \in RouteIds : RouteDistance[r] < RouteDistance[selectedRouteId]

\* the log holds the message; the place of its newest occurrence (1 is the newest)
Logged(msg) == \E k \in DOMAIN eventLog : eventLog[k] = msg
Place(msg) == CHOOSE k \in DOMAIN eventLog :
                  eventLog[k] = msg /\ \A j \in 1..(k - 1) : eventLog[j] # msg

\* C16: for every signal the transitions of a drive occur in the order advance
\* detection, override start, crossing: an active override implies that advance
\* detection has fired and that the minimum distance is <= 0.40 km; the override
\* event is logged after the advance event, the crossing event after the override
\* event; and a passed signal has all three, an overridden one the first two.
C16_TransitionOrder ==
    \A i \in Signals :
        /\ signalRuntime[i].overrideActive =>
              /\ signalRuntime[i].advanceTriggered
              /\ signalRuntime[i].minDistance <= OVERRIDE_START_KM
              /\ Logged(OverrideMsg(i))
              /\ ~signalRuntime[i].passed
        /\ signalRuntime[i].passed =>
              /\ signalRuntime[i].advanceTriggered
              /\ Logged(CrossedMsg(i))
        /\ Logged(OverrideMsg(i)) =>
              /\ Logged(AdvanceMsg(i))
              /\ Place(OverrideMsg(i)) < Place(AdvanceMsg(i))
        /\ Logged(CrossedMsg(i)) =>
              /\ Logged(OverrideMsg(i))
              /\ Place(CrossedMsg(i)) < Place(OverrideMsg(i))

\* S1 has gone through the three transitions, S2 through the first two and S3
\* through none
C16_Witness ==
    /\ isDriving
    /\ signalRuntime[1].passed
    /\ signalRuntime[2].overrideActive
    /\ ~signalRuntime[3].advanceTriggered
    /\ Place(OverrideMsg(2)) < Place(AdvanceMsg(2))
    /\ Place(AdvanceMsg(2)) < Place(CrossedMsg(1))

\* in a step: the tick has worked with signal i, which was not passed before
TickOn(i) == Tick /\ nextSignal' = i /\ ~signalRuntime[i].passed

\* in a step: the override of signal i is active when the tick comes to the crossing
\* rules (it was active before, or the tick has started it)
OverrideInTick(i) ==
    signalRuntime[i].overrideActive \/ distanceToSignal' <= OVERRIDE_START_KM

\* in a step: the waypoint index after the move is past the signal's nearest index,
\* or equal to it with a progress >= 0.6
IndexPassed(i) ==
    /\ signalRuntime[i].nearestIndex # NoIndex
    /\ \/ currentIndex' > signalRuntime[i].nearestIndex
       \/ /\ currentIndex' = signalRuntime[i].nearestIndex
          /\ segmentProgress' * 10 >= 6 * StepsPerSegment

\* in a step: the primary condition on the tick's distance and the minimum it has
\* recorded
PrimaryCondition(i) ==
    /\ signalRuntime'[i].minDistance <= OVERRIDE_START_KM
    /\ \/ distanceToSignal' > signalRuntime'[i].minDistance + CrossingBufferKm
       \/ IndexPassed(i)

\* in a step: the effects of a crossing on signal i
CrossingEffects(i) ==
    /\ signalRuntime'[i].passed
    /\ ~signalRuntime'[i].overrideActive
    /\ signalRuntime'[i].state = NORMAL

\* C17: every tick on a signal that is not passed, has its override active and meets
\* the primary condition (minimum distance <= 0.40 km, and the distance more than
\* 0.03 km above the minimum or the index passed) marks the signal passed, clears
\* its override and sets its mode to Normal, the first tick on the signal included.
C17_PrimaryRule ==
    [][\A i \in Signals :
          (TickOn(i) /\ OverrideInTick(i) /\ PrimaryCondition(i)) =>
              CrossingEffects(i)]_vars

\* in a step: the fallback condition on the tick's distance and the last recorded one
FallbackCondition(i) ==
    /\ signalRuntime[i].lastDistance # NoDistance
    /\ signalRuntime[i].lastDistance <= OVERRIDE_START_KM
    /\ distanceToSignal' > signalRuntime[i].lastDistance
    /\ distanceToSignal' >= OVERRIDE_END_KM

\* C18: a signal becomes passed only in a tick on it, with its override active, in
\* which the primary condition or the fallback condition holds; the tick has the
\* crossing effects once, whichever condition holds (passed, override cleared, mode
\* Normal, one crossing event), and lastDistance is the tick's distance.
C18_PassedOnlyIf ==
    [][\A i \in Signals :
          (signalRuntime'[i].passed /\ ~signalRuntime[i].passed) =>
              /\ TickOn(i)
              /\ OverrideInTick(i)
              /\ (PrimaryCondition(i) \/ FallbackCondition(i))
              /\ CrossingEffects(i)
              /\ signalRuntime'[i].lastDistance = distanceToSignal'
              /\ Count(eventLog', CrossedMsg(i)) = 1
              /\ Count(eventLog, CrossedMsg(i)) = 0]_vars

\* the last tick has marked its signal passed by the fallback rule: the distance is
\* within 0.03 km of the minimum and the index has not passed the nearest index
C18_Witness ==
    /\ lastOp = "tick"
    /\ nextSignal \in Signals
    /\ signalRuntime[nextSignal].passed
    /\ eventLog[1] = CrossedMsg(nextSignal)
    /\ distanceToSignal <= signalRuntime[nextSignal].minDistance + CrossingBufferKm
    /\ distanceToSignal >= OVERRIDE_END_KM
    /\ currentIndex < signalRuntime[nextSignal].nearestIndex

\* the signal of set S with the lowest / the highest nearestIndex
LowestNearest(S) ==
    CHOOSE i \in S : \A j \in S \ {i} :
        \/ signalRuntime[i].nearestIndex < signalRuntime[j].nearestIndex
        \/ signalRuntime[i].nearestIndex = signalRuntime[j].nearestIndex /\ i < j
HighestNearest(S) ==
    CHOOSE i \in S : \A j \in S \ {i} :
        \/ signalRuntime[i].nearestIndex > signalRuntime[j].nearestIndex
        \/ signalRuntime[i].nearestIndex = signalRuntime[j].nearestIndex /\ i > j

\* the signal the tick is to work with at waypoint index: among the signals not
\* passed the one of lowest nearestIndex at or ahead of index, else the one of
\* highest nearestIndex, 0 if all are passed
SignalAhead(index) ==
    LET unpassed == {i \in Signals : ~signalRuntime[i].passed}
        ahead == {i \in unpassed : signalRuntime[i].nearestIndex >= index}
    IN  IF ahead # {} THEN LowestNearest(ahead)
        ELSE IF unpassed # {} THEN HighestNearest(unpassed)
        ELSE 0

\* C19: every tick that moves the ambulance applies the transition rules to one
\* signal: among the signals not passed, the one of lowest nearestIndex with
\* nearestIndex >= currentIndex, else the one of highest nearestIndex, none only if
\* all are passed; the runtime state of every other signal is unchanged.
C19_TrackedSignal ==
    [][TickMoves =>
          /\ nextSignal' = SignalAhead(currentIndex')
          /\ \A j \in Signals \ {nextSignal'} : signalRuntime'[j] = signalRuntime[j]]_vars

\* in a step: the tick stops a drive during which nothing was clicked
StopsByItself == Tick /\ isDriving /\ ~isDriving' /\ clicksInDrive = 0

\* C20: when a drive stops by itself (no reset and no selection of a route during
\* the drive) the ambulance is displayed at the final waypoint of the selected route.
C20_StopsAtFinalWaypoint ==
    [][StopsByItself => ambulanceMarker' = At(Coords, Len(Coords) - 1)]_vars

\* the route of the drive is the one it was started on, and at most one click was
\* made during it: no other route was selected in between
RouteKept ==
    /\ clicksInDrive <= 1
    /\ Len(eventLog) >= 2
    /\ eventLog[Len(eventLog) - 1] = <<"Selected route", selectedRouteId>>

\* in a step: the tick stops a drive that has kept its route
StopsOnItsRoute == Tick /\ isDriving /\ ~isDriving' /\ RouteKept

\* C21: when a drive on one of the three catalog routes, run to its end without
\* reset or selection of another route, is stopped by its tick, no signal is left in
\* Override: every overrideActive is false and every mode is Normal.
C21_NoOverrideLeft ==
    [][StopsOnItsRoute =>
          \A i \in Signals :
              /\ ~signalRuntime'[i].overrideActive
              /\ signalRuntime'[i].state = NORMAL]_vars

\* a drive on the fastest route has stopped by itself after the three signals went
\* through Override
C21_Witness ==
    /\ lastOp = "tick"
    /\ ~isDriving
    /\ selectedRouteId = "fastest"
    /\ Len(eventLog) >= 2
    /\ eventLog[Len(eventLog) - 1] = <<"Selected route", "fastest">>
    /\ \A i \in Signals :
          /\ modeTrace[i] = <<NORMAL, OVERRIDE, NORMAL>>
          /\ signalRuntime[i].passed

\* in a step: the tick has got to the interpolation (it has stepped the progress)
TickInterpolates ==
    /\ Tick
    /\ <<currentIndex, segmentProgress>>' # <<currentIndex, segmentProgress>>

\* C22: under any interleaving of suggest, select, start, reset and tick, a tick that
\* interpolates has a selected route and reads waypoints of its list: currentIndex
\* and currentIndex + 1 are both indices of the route's coordinates; and no tick
\* fires while no route is selected.
C22_WaypointsInRange ==
    /\ [](activeTimers # {} => selectedRouteId \in RouteIds)
    /\ [][TickInterpolates =>
             /\ selectedRouteId \in RouteIds
             /\ currentIndex >= 0
             /\ currentIndex + 1 <= Len(Coords) - 1
             /\ ambulanceMarker' # Undefined]_vars

\* a shorter route was selected with the index beyond its last waypoint, and the
\* next tick has stopped the drive where the selection had put the ambulance
C22_Witness ==
    /\ lastOp = "tick"
    /\ ~isDriving
    /\ selectedRouteId = "shortest"
    /\ currentIndex > Len(Coords) - 1
    /\ ambulanceMarker = At(Coords, 0)

\* C23: in every reachable state the displayed mode of every signal agrees with its
\* flags: the mode is Override if and only if overrideActive is true (else it is
\* Normal), and a passed signal has overrideActive false and the mode Normal.
C23_ModeAgreesWithFlags ==
    \A i \in Signals :
        /\ signalRuntime[i].state \in {NORMAL, OVERRIDE}
        /\ signalRuntime[i].state = OVERRIDE <=> signalRuntime[i].overrideActive
        /\ signalRuntime[i].passed =>
              /\ ~signalRuntime[i].overrideActive
              /\ signalRuntime[i].state = NORMAL

\* during a drive S1 is passed and back in Normal, S2 is in Override with its flag
\* set, S3 is untouched in Normal
C23_Witness ==
    /\ isDriving
    /\ signalRuntime[1].passed
    /\ signalRuntime[1].state = NORMAL
    /\ signalRuntime[2].state = OVERRIDE
    /\ signalRuntime[2].overrideActive
    /\ signalRuntime[3].state = NORMAL
    /\ ~signalRuntime[3].overrideActive

=============================================================================
